---- MODULE Spec2Model ----
(***************************************************************************)
(* Gimhan-Revit-Automation: pyRevit push-button scripts and the git/zip    *)
(* self-updaters.  One run of one script is modelled per behaviour: `tool` *)
(* is the script that was started, `pc` its position.  The host (Revit,    *)
(* git, the file system, the user answering dialogs) is the environment:   *)
(* its answers are drawn from small sets when the script asks for them.    *)
(***************************************************************************)
EXTENDS Integers, Sequences, FiniteSets, TLC

VARIABLES
    tool,       \* the script that runs
    pc,         \* position inside the script
    \* ---- git based updaters (hooks/app-init.py, GimhanTools.tab UpdateExtensions)
    dirs,       \* dirs[i]: a ".git" entry exists in the i-th directory walking up from the script
    engine,     \* Python runtime the host loaded the hook with
    repo_root,  \* result of find_git_root: 0 is None, i > 0 the i-th directory
    gitLog,     \* git commands executed so far, with their success
    output,     \* tokens of the last captured git output
    dialogs,    \* titles/kinds of the dialogs shown so far
    res,        \* the user's answer to the yes/no prompt
    escaped,    \* an exception left the function
    \* ---- zip based updater (ToolsByGimhan.tab Update.pushbutton)
    installed,  \* EXTENSIONS_DIR: extension folder name -> what is installed there
    installed0, \* EXTENSIONS_DIR before the run
    repoHas,    \* extension folders found under extracted_root
    fsLog,      \* file system and network operations performed so far
    \* ---- the Revit document and the scripts working on it
    txn,        \* state of the script's transaction on the document
    docOps,     \* document modifications made so far, each with the transaction state it was made in
    view,       \* class of doc.ActiveView
    sel,        \* what the user chose in the script's selection dialogs
    references, \* result of uidoc.Selection.PickObjects
    todo,       \* number of loop items still to process
    cur,        \* the loop item processed last: its state before, after, and the outcome
    success_count,
    fail_count,
    created_dims, \* DimFoundation: number of ids collected in main's created_dims
    bubble,     \* grid -> <<End0 visible, End1 visible>> in the active view
    bubble0,    \* bubble before the first run
    pickHist    \* the grids picked in each completed run

gitVars == <<dirs, engine, repo_root, gitLog, output, escaped>>
updVars == <<installed, installed0, repoHas, fsLog>>
docVars == <<txn, docOps>>
uiVars == <<view, sel, references>>
loopVars == <<todo, cur, success_count, fail_count, created_dims>>
gridVars == <<bubble, bubble0, pickHist>>
vars == <<tool, pc, dialogs, res, gitVars, updVars, docVars, uiVars, loopVars, gridVars>>

----------------------------------------------------------------------------
\* Bounds
MaxDepth == 2
MaxItems == 2       \* elements, foundations or beams one run works through
NumGrids == 2
MaxRuns == 2        \* consecutive runs of the grid-bubble tool
NumLevels == 2

----------------------------------------------------------------------------
\* Generic helpers

None == 0

Range(s) == {s[i] : i \in 1..Len(s)}

\* Python's `needle in haystack` on text, at token granularity
Contains(hay, needle) ==
    \E i \in 0..(Len(hay) - Len(needle)) :
        \A k \in 1..Len(needle) : hay[i + k] = needle[k]

BoolSeqs(n) == UNION {[1..k -> BOOLEAN] : k \in 1..n}

----------------------------------------------------------------------------
\* find_git_root: walk from the script directory towards the file system
\* root and return the first directory holding ".git", None at the root.
RECURSIVE FindGitRootFrom(_, _)
FindGitRootFrom(d, i) ==
    IF i > Len(d) THEN None
    ELSE IF d[i] THEN i
    ELSE FindGitRootFrom(d, i + 1)

find_git_root(d) == FindGitRootFrom(d, 1)

\* what every step of the git updaters leaves alone
GitFrame == UNCHANGED <<updVars, docVars, uiVars, loopVars, gridVars>>

\* the folders of EXTENSIONS_DIR before the zip updater runs; the running
\* script itself sits in Update.extension
InstalledInputs(exts) ==
    {f \in [exts -> {"absent", "old"}] : f["Update.extension"] = "old"}

Alert(title) == dialogs' = Append(dialogs, title)

Git(cmd, ok) == gitLog' = Append(gitLog, [cmd |-> cmd, ok |-> ok])

----------------------------------------------------------------------------
\* hooks/app-init.py : check_for_updates

BehindNeedle == <<"Your", "branch", "is", "behind">>

StatusOutputs ==
    { <<"On", "branch", "master", "Your", "branch", "is", "behind", "origin/master", "by", "1", "commit">>,
      <<"On", "branch", "master", "Your", "branch", "is", "up", "to", "date">>,
      <<"On", "branch", "master", "Your", "branch", "is", "ahead", "of", "origin/master">>,
      <<"branch", "is", "behind", "Your">>,
      <<>> }

HookFindRoot ==
    /\ tool = "Hook" /\ pc = "start"
    /\ repo_root' = find_git_root(dirs)
    /\ pc' = IF repo_root' = None THEN "done" ELSE "fetch"
    /\ UNCHANGED <<tool, dirs, engine, gitLog, output, dialogs, res, escaped>>
    /\ GitFrame

\* check_call(["git","fetch","origin"], timeout=10).  Python 2 runtimes have
\* neither the timeout keyword nor subprocess.TimeoutExpired: the call raises
\* TypeError before git starts, and matching the first except clause raises
\* AttributeError, which leaves the function.
HookFetch ==
    /\ tool = "Hook" /\ pc = "fetch"
    /\ IF engine = "py2"
       THEN /\ escaped' = TRUE
            /\ pc' = "done"
            /\ UNCHANGED gitLog
       ELSE \E outcome \in {"ok", "timeout", "error"} :
            /\ Git("fetch", outcome = "ok")
            /\ pc' = IF outcome = "ok" THEN "status" ELSE "done"
            /\ UNCHANGED escaped
    /\ UNCHANGED <<tool, dirs, engine, repo_root, output, dialogs, res>>
    /\ GitFrame

HookAfterStatus(out) == IF Contains(out, BehindNeedle) THEN "prompt" ELSE "done"

HookStatus ==
    /\ tool = "Hook" /\ pc = "status"
    /\ \/ \E out \in StatusOutputs :
            /\ Git("status -uno", TRUE)
            /\ output' = out
            /\ pc' = HookAfterStatus(out)
       \/ /\ Git("status -uno", FALSE)
          /\ pc' = "done"
          /\ UNCHANGED output
    /\ UNCHANGED <<tool, dirs, engine, repo_root, dialogs, res, escaped>>
    /\ GitFrame

\* mutation: the answer to the prompt is ignored
HookAfterPrompt_IgnoreAnswer(ans) == "pull"

HookAfterPrompt(ans) == IF ans THEN "pull" ELSE "done"

HookPrompt ==
    /\ tool = "Hook" /\ pc = "prompt"
    /\ Alert("Updates Available")
    /\ \E ans \in BOOLEAN :
        /\ res' = IF ans THEN "yes" ELSE "no"
        /\ pc' = HookAfterPrompt(ans)
    /\ UNCHANGED <<tool, dirs, engine, repo_root, gitLog, output, escaped>>
    /\ GitFrame

HookPull ==
    /\ tool = "Hook" /\ pc = "pull"
    /\ \/ \E rc \in {0, 1} :
            /\ Git("pull", rc = 0)
            /\ Alert(IF rc = 0 THEN "Update Complete" ELSE "Update Error")
       \/ /\ Git("pull", FALSE)       \* Popen itself raised: swallowed by except Exception
          /\ UNCHANGED dialogs
    /\ pc' = "done"
    /\ UNCHANGED <<tool, dirs, engine, repo_root, output, res, escaped>>
    /\ GitFrame

----------------------------------------------------------------------------
\* GimhanTools.tab/Admin.panel/UpdateExtensions.pushbutton : run_sync

\* int(): the decimal numerals the model uses, ValueError for anything else
ValueError == -1

int(tok) ==
    CASE tok = "0" -> 0
      [] tok = "1" -> 1
      [] tok = "2" -> 2
      [] OTHER -> ValueError

\* `git rev-list --left-right --count master...origin/master` after split():
\* <<ahead, behind>>, or whatever else the command printed
CountOutputs ==
    { <<"0", "0">>, <<"0", "1">>, <<"1", "0">>, <<"2", "2">>, <<"1">>, <<>>,
      <<"0", "x">>, <<"0", "2", "1">> }

\* len(counts) >= 2 and int(counts[1]) > 0, with its short-circuit
SyncAfterCounts(counts) ==
    IF Len(counts) >= 2
    THEN IF int(counts[2]) = ValueError THEN "error"
         ELSE IF int(counts[2]) > 0 THEN "prompt" ELSE "uptodate"
    ELSE "uptodate"

SyncFindRoot ==
    /\ tool = "Sync" /\ pc = "start"
    /\ repo_root' = find_git_root(dirs)
    /\ IF repo_root' = None
       THEN Alert("Error") /\ pc' = "done"
       ELSE UNCHANGED dialogs /\ pc' = "fetch"
    /\ UNCHANGED <<tool, dirs, engine, gitLog, output, res, escaped>>
    /\ GitFrame

SyncFetch ==
    /\ tool = "Sync" /\ pc = "fetch"
    /\ \E ok \in BOOLEAN :
        /\ Git("fetch", ok)
        /\ IF ok THEN UNCHANGED dialogs /\ pc' = "revlist"
                 ELSE Alert("Error") /\ pc' = "done"
    /\ UNCHANGED <<tool, dirs, engine, repo_root, output, res, escaped>>
    /\ GitFrame

SyncRevList ==
    /\ tool = "Sync" /\ pc = "revlist"
    /\ \/ \E counts \in CountOutputs :
            /\ Git("rev-list", TRUE)
            /\ output' = counts
            /\ CASE SyncAfterCounts(counts) = "prompt"   -> UNCHANGED dialogs /\ pc' = "prompt"
                 [] SyncAfterCounts(counts) = "uptodate" -> Alert("Status") /\ pc' = "done"
                 [] OTHER                                -> Alert("Error") /\ pc' = "done"
       \/ /\ Git("rev-list", FALSE)
          /\ Alert("Error")
          /\ pc' = "done"
          /\ UNCHANGED output
    /\ UNCHANGED <<tool, dirs, engine, repo_root, res, escaped>>
    /\ GitFrame

SyncAfterPrompt(ans) == IF ans THEN "reset" ELSE "done"

SyncPrompt ==
    /\ tool = "Sync" /\ pc = "prompt"
    /\ Alert("Updates found")
    /\ \E ans \in BOOLEAN :
        /\ res' = IF ans THEN "yes" ELSE "no"
        /\ pc' = SyncAfterPrompt(ans)
    /\ UNCHANGED <<tool, dirs, engine, repo_root, gitLog, output, escaped>>
    /\ GitFrame

\* mutation: call instead of check_call, the exit status of reset is ignored
SyncAfterReset_IgnoreStatus(ok) == "clean"

SyncAfterReset(ok) == IF ok THEN "clean" ELSE "done"

SyncReset ==
    /\ tool = "Sync" /\ pc = "reset"
    /\ \E ok \in BOOLEAN :
        /\ Git("reset --hard origin/master", ok)
        /\ pc' = SyncAfterReset(ok)
        /\ IF ok THEN UNCHANGED dialogs ELSE Alert("Error")
    /\ UNCHANGED <<tool, dirs, engine, repo_root, output, res, escaped>>
    /\ GitFrame

SyncClean ==
    /\ tool = "Sync" /\ pc = "clean"
    /\ \E ok \in BOOLEAN :
        /\ Git("clean -fd", ok)
        /\ Alert(IF ok THEN "Success" ELSE "Error")
    /\ pc' = "done"
    /\ UNCHANGED <<tool, dirs, engine, repo_root, output, res, escaped>>
    /\ GitFrame

----------------------------------------------------------------------------
\* ToolsByGimhan.tab/Admin.panel/Update.pushbutton : update_extensions

\* extensions_to_update, in the order of the list
extensions_to_update ==
    <<"ParamTransfer.extension", "LinkTools.extension", "HostTools.extension", "Update.extension">>

\* the extension folders the repository (and so its master.zip) holds
RepoExtensions ==
    {"ParamTransfer.extension", "LinkTools.extension", "HostTools.extension",
     "Update.extension", "DimensionTools.extension", "RebarTools.extension"}

\* what every step of the zip updater leaves alone
UpdFrame == UNCHANGED <<tool, gitVars, docVars, uiVars, cur, success_count, fail_count, created_dims, gridVars>>

Fs(op, arg, ok) == fsLog' = Append(fsLog, [op |-> op, arg |-> arg, ok |-> ok])

\* mutation: the early return on a declined confirmation is missing
UpdAfterConfirm_NoReturn(ans) == "mkdtemp"

UpdAfterConfirm(ans) == IF ans THEN "mkdtemp" ELSE "done"

UpdConfirm ==
    /\ tool = "Upd" /\ pc = "start"
    /\ Alert("Update Gimhan Extensions")
    /\ \E ans \in BOOLEAN :
        /\ res' = IF ans THEN "yes" ELSE "no"
        /\ pc' = UpdAfterConfirm(ans)
    /\ UNCHANGED <<updVars, todo>>
    /\ UpdFrame

UpdMkdtemp ==
    /\ tool = "Upd" /\ pc = "mkdtemp"
    /\ Fs("mkdtemp", "temp_dir", TRUE)
    /\ pc' = "download"
    /\ UNCHANGED <<dialogs, res, installed, installed0, repoHas, todo>>
    /\ UpdFrame

UpdDownload ==
    /\ tool = "Upd" /\ pc = "download"
    /\ \E ok \in BOOLEAN :
        /\ Fs("DownloadFile", "update.zip", ok)
        /\ pc' = IF ok THEN "extract" ELSE "cleanup"
    /\ UNCHANGED <<dialogs, res, installed, installed0, repoHas, todo>>
    /\ UpdFrame

\* extractall, then the choice of extracted_root; repoHas is what
\* os.path.exists(src_path) will answer for each folder name
UpdExtract ==
    /\ tool = "Upd" /\ pc = "extract"
    /\ \/ /\ Fs("extractall", "temp_dir", TRUE)
          /\ repoHas' \in SUBSET RepoExtensions
          /\ todo' = Len(extensions_to_update)
          /\ pc' = "loop"
       \/ /\ Fs("extractall", "temp_dir", FALSE)
          /\ pc' = "cleanup"
          /\ UNCHANGED <<repoHas, todo>>
    /\ UNCHANGED <<dialogs, res, installed, installed0>>
    /\ UpdFrame

\* shutil.rmtree(dest_path): on failure the old folder is still there
AfterRmtree(state, ok) == IF ok THEN "absent" ELSE state

\* shutil.copytree(src_path, dest_path) refuses an existing destination
CopytreeCanSucceed(state) == state = "absent"

AfterCopytree(state, ok) == IF ok THEN "new" ELSE IF state = "absent" THEN "partial" ELSE state

\* one iteration of `for ext_name in extensions_to_update`
UpdLoop ==
    /\ tool = "Upd" /\ pc = "loop" /\ todo > 0
    /\ LET ext == extensions_to_update[Len(extensions_to_update) - todo + 1] IN
       IF ext \in repoHas
       THEN \E rmOk \in BOOLEAN, cpOk \in BOOLEAN :
              LET had   == installed[ext] # "absent"
                  mid   == IF had THEN AfterRmtree(installed[ext], rmOk) ELSE installed[ext]
                  ok    == cpOk /\ CopytreeCanSucceed(mid)
                  log1  == IF had THEN Append(fsLog, [op |-> "rmtree", arg |-> ext, ok |-> rmOk])
                                  ELSE fsLog
              IN  /\ (~had => rmOk)
                  /\ (~CopytreeCanSucceed(mid) => ~cpOk)
                  /\ fsLog' = Append(log1, [op |-> "copytree", arg |-> ext, ok |-> ok])
                  /\ installed' = [installed EXCEPT ![ext] = AfterCopytree(mid, ok)]
       ELSE UNCHANGED <<fsLog, installed>>
    /\ todo' = todo - 1
    /\ pc' = IF todo' = 0 THEN "cleanup" ELSE "loop"
    /\ UNCHANGED <<dialogs, res, installed0, repoHas>>
    /\ UpdFrame

\* finally: shutil.rmtree(temp_dir), errors ignored
UpdCleanup ==
    /\ tool = "Upd" /\ pc = "cleanup"
    /\ \E ok \in BOOLEAN : Fs("rmtree", "temp_dir", ok)
    /\ pc' = "done"
    /\ UNCHANGED <<dialogs, res, installed, installed0, repoHas, todo>>
    /\ UpdFrame

----------------------------------------------------------------------------
\* The Revit document as the scripts use it

\* mutation: the transaction is created but never started
TxnStart_NotStarted == UNCHANGED txn

TxnStart == txn' = "open"

TxnCommit == txn' = "committed"

TxnRollBack == txn' = "rolledback"

\* a document modification (parameter set, creation, copy, visibility
\* change), recorded with the state of the transaction it is made in
Mutate(ops) == docOps' = docOps \cup {[op |-> o, txn |-> txn] : o \in ops}

\* all sequences over S of length at most n
RECURSIVE SeqsUpTo(_, _)
SeqsUpTo(S, n) ==
    IF n = 0 THEN {<<>>}
    ELSE LET shorter == SeqsUpTo(S, n - 1) IN
         shorter \cup {Append(q, x) : q \in shorter, x \in S}

\* PickObjects returns every picked element once
PickSeqs(S, n) == {q \in SeqsUpTo(S, n) : \A i, j \in 1..Len(q) : i # j => q[i] # q[j]}

----------------------------------------------------------------------------
\* HostTools ToggleGridBubbles.pushbutton : main

Grids == 1..NumGrids

End0 == 1
End1 == 2

GridFrame == UNCHANGED <<tool, dialogs, res, gitVars, updVars, sel, cur, success_count, fail_count, created_dims>>

HideBubbleInView(b, end) == [b EXCEPT ![end] = FALSE]

ShowBubbleInView(b, end) == [b EXCEPT ![end] = TRUE]

\* mutation: the second end is switched on the visibility read for the first
ToggleBubbles_Vis0ForBoth(b) ==
    LET vis0 == b[End0]
        b0   == IF vis0 THEN HideBubbleInView(b, End0) ELSE ShowBubbleInView(b, End0)
    IN  IF vis0 THEN HideBubbleInView(b0, End1) ELSE ShowBubbleInView(b0, End1)

\* the body of `for ref in references` on one grid
ToggleBubbles(b) ==
    LET vis0 == b[End0]
        vis1 == b[End1]
        b0   == IF vis0 THEN HideBubbleInView(b, End0) ELSE ShowBubbleInView(b, End0)
    IN  IF vis1 THEN HideBubbleInView(b0, End1) ELSE ShowBubbleInView(b0, End1)

GridCheckView ==
    /\ tool = "Grid" /\ pc = "start"
    /\ IF view \in {"ViewPlan", "ViewSection"}
       THEN pc' = "pick" /\ UNCHANGED dialogs
       ELSE pc' = "done" /\ Alert("Active view must be a Plan, Section, or Elevation view.")
    /\ UNCHANGED <<tool, res, gitVars, updVars, docVars, uiVars, loopVars, gridVars>>

GridPick ==
    /\ tool = "Grid" /\ pc = "pick"
    /\ \/ \E refs \in PickSeqs(Grids, NumGrids) :
            /\ references' = refs
            /\ pc' = IF refs = <<>> THEN "done" ELSE "txn"
       \/ /\ pc' = "done"               \* PickObjects raised: Escape
          /\ UNCHANGED references
    /\ UNCHANGED <<view, docVars, todo, gridVars>>
    /\ GridFrame

GridTxnStart ==
    /\ tool = "Grid" /\ pc = "txn"
    /\ TxnStart
    /\ todo' = Len(references)
    /\ pc' = "loop"
    /\ UNCHANGED <<docOps, view, references, gridVars>>
    /\ GridFrame

GridToggle ==
    /\ tool = "Grid" /\ pc = "loop" /\ todo > 0
    /\ LET grid == references[Len(references) - todo + 1] IN
        /\ bubble' = [bubble EXCEPT ![grid] = ToggleBubbles(bubble[grid])]
        /\ Mutate({"BubbleInView"})
    /\ todo' = todo - 1
    /\ UNCHANGED <<pc, txn, view, references, bubble0, pickHist>>
    /\ GridFrame

GridCommit ==
    /\ tool = "Grid" /\ pc = "loop" /\ todo = 0
    /\ TxnCommit
    /\ pickHist' = Append(pickHist, Range(references))
    /\ pc' = "done"
    /\ UNCHANGED <<docOps, view, references, todo, bubble, bubble0>>
    /\ GridFrame

\* the user presses the button again
GridRunAgain ==
    /\ tool = "Grid" /\ pc = "done" /\ Len(pickHist) \in 1..(MaxRuns - 1)
    /\ pc' = "start"
    /\ references' = <<>>
    /\ UNCHANGED <<docVars, view, todo, gridVars>>
    /\ GridFrame

----------------------------------------------------------------------------
\* HostTools ChangeHost.pushbutton : main

Levels == 1..NumLevels

\* Level.Elevation of the document's levels
Elevation(l) == 3 * (l - 1)

InvalidElementId == -1

abs(x) == IF x < 0 THEN 0 - x ELSE x

\* An element as the script sees it.  level is the level the element sits
\* on; LevelId and every level parameter report it (LevelId may instead be
\* invalid).  levelParams and offsetParams list, in the script's lookup
\* order, the candidate parameters the element has, each read-only or not.
ParamLists == {<<>>, <<[ro |-> FALSE]>>, <<[ro |-> TRUE]>>, <<[ro |-> TRUE], [ro |-> FALSE]>>}

ElementInputs(level) ==
    [level : {level}, LevelIdValid : BOOLEAN, levelStorage : {"ElementId", "String"},
     levelParams : ParamLists, offsetParams : ParamLists, offset : {0, 2}]

\* first candidate that exists and is not read-only, None otherwise
RECURSIVE FirstWritable(_, _)
FirstWritable(ps, i) ==
    IF i > Len(ps) THEN None
    ELSE IF ~ps[i].ro THEN i
    ELSE FirstWritable(ps, i + 1)

get_level_param(el) == FirstWritable(el.levelParams, 1)

get_offset_param(el) == FirstWritable(el.offsetParams, 1)

LevelIdOf(el) == IF el.LevelIdValid THEN el.level ELSE InvalidElementId

\* the offset an element without any offset parameter has
OffsetOf(el) == IF el.offsetParams = <<>> THEN 0 ELSE el.offset

\* step 3: the elements offered for the chosen source level
IsHosted(el, source_level_id) ==
    \/ LevelIdOf(el) = source_level_id
    \/ /\ get_level_param(el) # None
       /\ el.levelStorage = "ElementId"
       /\ el.level = source_level_id

HostedElementInputs(src) == {el \in ElementInputs(src) : IsHosted(el, src)}

\* body of `for el in selected_elements`; levelThrows/offsetThrows: the
\* host rejects the respective Set with an exception
ChangeLevel(el, target, levelThrows, offsetThrows) ==
    LET p_level == get_level_param(el)
        current_level_id ==
            IF LevelIdOf(el) = InvalidElementId /\ p_level # None /\ el.levelStorage = "ElementId"
            THEN el.level ELSE LevelIdOf(el)
        current_elevation_base == Elevation(current_level_id)
        p_offset == get_offset_param(el)
        current_offset_val == IF p_offset # None THEN el.offset ELSE 0
        absolute_z == current_elevation_base + current_offset_val
        new_offset_val == absolute_z - Elevation(target)
        moved == [el EXCEPT !.level = target]
    IN  IF p_level = None THEN [after |-> el, outcome |-> "no level parameter", ops |-> {}]
        ELSE IF current_level_id = InvalidElementId
             THEN [after |-> el, outcome |-> "no current level", ops |-> {}]
        ELSE IF levelThrows \/ el.levelStorage # "ElementId"
             THEN [after |-> el, outcome |-> "error", ops |-> {}]
        ELSE IF p_offset = None
             THEN [after |-> moved, outcome |-> "success", ops |-> {"Set level"}]
        ELSE IF offsetThrows
             THEN [after |-> moved, outcome |-> "error", ops |-> {"Set level"}]
        ELSE [after |-> [moved EXCEPT !.offset = new_offset_val], outcome |-> "success",
              ops |-> {"Set level", "Set offset"}]

HostFrame == UNCHANGED <<tool, res, gitVars, updVars, view, references, gridVars, created_dims>>

HostSelectSource ==
    /\ tool = "Host" /\ pc = "start"
    /\ \/ \E l \in Levels : sel' = [source |-> l] /\ pc' = "elements"
       \/ pc' = "done" /\ UNCHANGED sel              \* script.exit()
    /\ UNCHANGED <<dialogs, docVars, loopVars>>
    /\ HostFrame

\* steps 3 and 4: filter the elements of the source level, let the user
\* tick some of them
HostSelectElements ==
    /\ tool = "Host" /\ pc = "elements"
    /\ \/ \E n \in 1..MaxItems : todo' = n /\ pc' = "target" /\ UNCHANGED dialogs
       \/ todo' = 0 /\ pc' = "done" /\ Alert("No elements found on level")
       \/ todo' = 0 /\ pc' = "done" /\ UNCHANGED dialogs      \* nothing ticked
    /\ UNCHANGED <<sel, docVars, cur, success_count, fail_count>>
    /\ HostFrame

HostSelectTarget ==
    /\ tool = "Host" /\ pc = "target"
    /\ \/ \E l \in Levels : sel' = [source |-> sel.source, target |-> l] /\ pc' = "txn"
       \/ pc' = "done" /\ UNCHANGED sel
    /\ UNCHANGED <<dialogs, docVars, loopVars>>
    /\ HostFrame

HostTxnStart ==
    /\ tool = "Host" /\ pc = "txn"
    /\ TxnStart
    /\ success_count' = 0 /\ fail_count' = 0
    /\ pc' = "loop"
    /\ UNCHANGED <<dialogs, sel, docOps, todo, cur>>
    /\ HostFrame

HostElement ==
    /\ tool = "Host" /\ pc = "loop" /\ todo > 0
    /\ \E el \in HostedElementInputs(sel.source), levelThrows \in BOOLEAN, offsetThrows \in BOOLEAN :
        LET r == ChangeLevel(el, sel.target, levelThrows, offsetThrows) IN
        /\ cur' = [before |-> el, after |-> r.after, outcome |-> r.outcome]
        /\ Mutate(r.ops)
        /\ IF r.outcome = "success"
           THEN success_count' = success_count + 1 /\ UNCHANGED fail_count
           ELSE fail_count' = fail_count + 1 /\ UNCHANGED success_count
    /\ todo' = todo - 1
    /\ UNCHANGED <<pc, dialogs, sel, txn>>
    /\ HostFrame

HostCommit ==
    /\ tool = "Host" /\ pc = "loop" /\ todo = 0
    /\ TxnCommit
    /\ pc' = "done"
    /\ UNCHANGED <<dialogs, sel, docOps, loopVars>>
    /\ HostFrame

----------------------------------------------------------------------------
\* ParamTransfer TransferValue.pushbutton : main

Null == "<null>"

\* LookupParameter found no parameter of that name
NoParameter == [found |-> FALSE]

\* what LookupParameter(source_param_name) can return: None, or a parameter
\* with its StorageType, its raw value and its AsValueString() text
SourceParams ==
    [storage : {"String"}, value : {Null, "", "abc"}, text : {Null}]
    \cup [storage : {"Double"}, value : {"1.5"}, text : {Null, "", "1.5 m"}]
    \cup [storage : {"Integer"}, value : {"1"}, text : {Null, "Yes"}]
    \cup [storage : {"ElementId"}, value : {"id7"}, text : {Null, "Level 1"}]
    \cup [storage : {"None"}, value : {Null}, text : {Null}]

\* what LookupParameter(target_param_name) can return
TargetParams ==
    [IsReadOnly : BOOLEAN, storage : {"String"}, value : {Null, "old"}]
    \cup [IsReadOnly : BOOLEAN, storage : {"Double"}, value : {"0.5"}]
    \cup [IsReadOnly : BOOLEAN, storage : {"Integer"}, value : {"0"}]
    \cup [IsReadOnly : BOOLEAN, storage : {"ElementId"}, value : {"id3"}]

TransferInputs == [p_source : {NoParameter} \cup SourceParams, p_target : {NoParameter} \cup TargetParams]

\* "Get Value Logic": AsString / AsDouble / AsInteger / AsElementId by storage
\* type; val stays None for any other storage type
SourceValue(p_source) ==
    IF p_source.storage \in {"String", "Double", "Integer", "ElementId"}
    THEN p_source.value ELSE Null

\* the argument "Set Value Logic" passes to p_target.Set, with its type
SetArgument(p_source, p_target) ==
    LET val == SourceValue(p_source) IN
    IF p_target.storage = "String"
    THEN IF p_source.storage # "String"
         THEN [type |-> "String",
               value |-> IF p_source.text \notin {Null, ""} THEN p_source.text ELSE val]
         ELSE [type |-> "String", value |-> val]
    ELSE [type |-> p_source.storage, value |-> val]

\* mutation: an empty source clears the target instead of being skipped
OnNullSource_ClearTarget(el) ==
    [after |-> [el EXCEPT !.p_target.value = Null], outcome |-> "null", ops |-> {"Set"}]

\* the else branch of `if val is not None`: count as failed, touch nothing
OnNullSource(el) == [after |-> el, outcome |-> "null", ops |-> {}]

\* body of `for el in elements`; throws: the host raises from Set.  A Set
\* whose argument does not fit the target's storage type changes nothing.
TransferValue(el, throws) ==
    LET p_source == el.p_source
        p_target == el.p_target
    IN  IF p_source = NoParameter THEN [after |-> el, outcome |-> "source not found", ops |-> {}]
        ELSE IF p_target = NoParameter THEN [after |-> el, outcome |-> "target not found", ops |-> {}]
        ELSE IF p_target.IsReadOnly THEN [after |-> el, outcome |-> "read-only", ops |-> {}]
        ELSE IF SourceValue(p_source) = Null THEN OnNullSource(el)
        ELSE LET arg == SetArgument(p_source, p_target) IN
             IF throws THEN [after |-> el, outcome |-> "error", ops |-> {}]
             ELSE IF arg.type # p_target.storage
                  THEN [after |-> el, outcome |-> "success", ops |-> {}]
             ELSE [after |-> [el EXCEPT !.p_target.value = arg.value],
                   outcome |-> "success", ops |-> {"Set"}]

ParamFrame == UNCHANGED <<tool, res, gitVars, updVars, view, references, gridVars, created_dims>>

ParamSwitch ==
    /\ tool = "Param" /\ pc = "start"
    /\ \/ \E switch \in {"Current Selection", "Select by Family Type"} :
            sel' = [switch |-> switch] /\ pc' = "elements"
       \/ pc' = "done" /\ UNCHANGED sel
    /\ UNCHANGED <<dialogs, docVars, loopVars>>
    /\ ParamFrame

\* get_elements_by_selection / get_elements_by_family_type
ParamGetElements ==
    /\ tool = "Param" /\ pc = "elements"
    /\ \/ \E n \in 1..MaxItems : todo' = n /\ pc' = "source" /\ UNCHANGED dialogs
       \/ /\ todo' = 0 /\ pc' = "done"
          /\ Alert(IF sel.switch = "Current Selection" THEN "No elements selected."
                   ELSE "No Family Types or instances found")
       \/ /\ sel.switch = "Select by Family Type"       \* type list dismissed
          /\ todo' = 0 /\ pc' = "done" /\ UNCHANGED dialogs
    /\ UNCHANGED <<sel, docVars, cur, success_count, fail_count>>
    /\ ParamFrame

ParamSelectNames ==
    /\ tool = "Param" /\ pc \in {"source", "target"}
    /\ \/ pc' = IF pc = "source" THEN "target" ELSE "txn"
       \/ pc' = "done"
    /\ UNCHANGED <<dialogs, sel, docVars, loopVars>>
    /\ ParamFrame

ParamTxnStart ==
    /\ tool = "Param" /\ pc = "txn"
    /\ TxnStart
    /\ success_count' = 0 /\ fail_count' = 0
    /\ pc' = "loop"
    /\ UNCHANGED <<dialogs, sel, docOps, todo, cur>>
    /\ ParamFrame

ParamElement ==
    /\ tool = "Param" /\ pc = "loop" /\ todo > 0
    /\ \E el \in TransferInputs, throws \in BOOLEAN :
        LET r == TransferValue(el, throws) IN
        /\ cur' = [before |-> el, after |-> r.after, outcome |-> r.outcome]
        /\ Mutate(r.ops)
        /\ IF r.outcome = "success"
           THEN success_count' = success_count + 1 /\ UNCHANGED fail_count
           ELSE fail_count' = fail_count + 1 /\ UNCHANGED success_count
    /\ todo' = todo - 1
    /\ UNCHANGED <<pc, dialogs, sel, txn>>
    /\ ParamFrame

ParamCommit ==
    /\ tool = "Param" /\ pc = "loop" /\ todo = 0
    /\ TxnCommit
    /\ pc' = "done"
    /\ UNCHANGED <<dialogs, sel, docOps, loopVars>>
    /\ ParamFrame

----------------------------------------------------------------------------
\* DimensionTools DimFoundation.pushbutton : main, create_dimensions_for_foundation

Dot(a, b) == a[1] * b[1] + a[2] * b[2] + a[3] * b[3]

Min(S) == CHOOSE x \in S : \A y \in S : x <= y

\* view.ViewDirection of a plan view
view_dir == <<0, 0, 1>>

\* The faces of a rectangular foundation: normal n, mid point p.
BoxFace(id) ==
    CASE id = "x-" -> [id |-> id, n |-> <<-1, 0, 0>>, p |-> <<-1, 0, 0>>]
      [] id = "x+" -> [id |-> id, n |-> <<1, 0, 0>>,  p |-> <<1, 0, 0>>]
      [] id = "y-" -> [id |-> id, n |-> <<0, -1, 0>>, p |-> <<0, -1, 0>>]
      [] id = "y+" -> [id |-> id, n |-> <<0, 1, 0>>,  p |-> <<0, 1, 0>>]
      [] id = "z-" -> [id |-> id, n |-> <<0, 0, -1>>, p |-> <<0, 0, -1>>]
      [] id = "z+" -> [id |-> id, n |-> <<0, 0, 1>>,  p |-> <<0, 0, 1>>]

SideFaceIds == {"x-", "x+", "y-", "y+"}

\* orders in which the host may enumerate the faces of the solid
FaceOrders ==
    { <<"z+", "x-", "y-", "x+", "y+", "z-">>,
      <<"y+", "x+", "z-", "y-", "x-", "z+">> }

\* foundation.get_Geometry(opt): the faces in some order, and which of them
\* carry a Reference
GeometryInputs == [order : FaceOrders, withRef : SUBSET SideFaceIds]

HasReference(g, id) == id \in g.withRef \/ id \in {"z-", "z+"}

\* get_side_faces: faces with a Reference whose normal is perpendicular to
\* the view direction (abs(dot) < 0.01)
get_side_faces(g) ==
    LET all == [i \in 1..Len(g.order) |-> BoxFace(g.order[i])]
    IN  SelectSeq(all, LAMBDA f : HasReference(g, f.id) /\ abs(Dot(f.n, view_dir)) = 0)

\* the pairing loop of PRIORITY 3: every face is paired with the first later
\* unused face parallel to it (abs(abs(n1.n2) - 1) < 0.01), low side first
RECURSIVE PairFaces(_, _, _, _)
PairFaces(side_faces, i, used, pairs) ==
    IF i > Len(side_faces) THEN pairs
    ELSE IF i \in used THEN PairFaces(side_faces, i + 1, used, pairs)
    ELSE LET cands == {j \in (i + 1)..Len(side_faces) :
                          j \notin used /\ abs(Dot(side_faces[i].n, side_faces[j].n)) = 1}
         IN  IF cands = {} THEN PairFaces(side_faces, i + 1, used, pairs)
             ELSE LET j  == Min(cands)
                      f1 == side_faces[i]
                      f2 == side_faces[j]
                      is_x_aligned == abs(f1.n[1]) > abs(f1.n[2])
                      pair == IF is_x_aligned
                              THEN IF f1.p[1] < f2.p[1] THEN <<f1, f2>> ELSE <<f2, f1>>
                              ELSE IF f1.p[2] < f2.p[2] THEN <<f1, f2>> ELSE <<f2, f1>>
                  IN  PairFaces(side_faces, i + 1, used \cup {i, j}, Append(pairs, pair))

\* make_dim: the dimension requested from the host.  is_width_dim puts the
\* dimension line below the foundation, running along X; otherwise to its
\* right, running along Y.
make_dim(ref_list, is_width_dim, strategy) ==
    [refs |-> ref_list,
     dim_line_dir |-> IF is_width_dim THEN <<1, 0, 0>> ELSE <<0, 1, 0>>,
     strategy |-> strategy]

\* one `d = make_dim(...); if d: created_ids.append(d.Id)`; ok: the host
\* returned a dimension
AppendDim(created_ids, wanted, ok, d) == IF wanted /\ ok THEN Append(created_ids, d) ELSE created_ids

\* mutation: no early return between the strategies
DimAfterStrategy_NoReturn(created_ids, next) == next

\* `if created_ids: return created_ids`
DimAfterStrategy(created_ids, next) == IF created_ids # <<>> THEN "return" ELSE next

DimFrame == UNCHANGED <<tool, res, gitVars, updVars, view, sel, references, gridVars,
                        success_count, fail_count>>

DimCheckView ==
    /\ tool = "Dim" /\ pc = "start"
    /\ IF view = "ViewPlan"
       THEN pc' = "selection" /\ UNCHANGED dialogs
       ELSE pc' = "done" /\ Alert("Please run this tool in a Floor Plan view.")
    /\ UNCHANGED <<docVars, todo, cur, created_dims>>
    /\ DimFrame

DimSelection ==
    /\ tool = "Dim" /\ pc = "selection"
    /\ \/ \E n \in 1..MaxItems : todo' = n /\ pc' = "txn" /\ UNCHANGED dialogs
       \/ todo' = 0 /\ pc' = "done" /\ Alert("Please select one or more foundations.")
       \/ todo' = 0 /\ pc' = "done" /\ Alert("No Structural Foundations selected.")
    /\ UNCHANGED <<docVars, cur, created_dims>>
    /\ DimFrame

\* tg.Start() and the entry of `with revit.Transaction("Dimension Details")`
DimTxnStart ==
    /\ tool = "Dim" /\ pc = "txn"
    /\ TxnStart
    /\ created_dims' = 0
    /\ pc' = "loop"
    /\ UNCHANGED <<dialogs, docOps, todo, cur>>
    /\ DimFrame

\* create_dimensions_for_foundation up to the dimension factory: bounding
\* box, and the Dimensions category switched on when it is hidden
DimBegin ==
    /\ tool = "Dim" /\ pc = "loop" /\ todo > 0
    /\ \E bbox \in BOOLEAN, hidden \in BOOLEAN :
        /\ cur' = [bbox |-> bbox, named |-> {}, geometry |-> <<>>, created_ids |-> <<>>,
                   attempts |-> <<>>, refused |-> FALSE]
        /\ IF bbox
           THEN pc' = "s1" /\ Mutate(IF hidden THEN {"SetCategoryHidden"} ELSE {})
           ELSE pc' = "return" /\ (~hidden) /\ UNCHANGED docOps
    /\ UNCHANGED <<dialogs, txn, todo, created_dims>>
    /\ DimFrame

\* PRIORITY 1: Front/Back, then Left/Right
DimStrategy1 ==
    /\ tool = "Dim" /\ pc = "s1"
    /\ \E named \in SUBSET {"Front", "Back", "Left", "Right"}, ok1 \in BOOLEAN, ok2 \in BOOLEAN :
        LET want1 == {"Front", "Back"} \subseteq named
            want2 == {"Left", "Right"} \subseteq named
            c1 == AppendDim(cur.created_ids, want1, ok1, make_dim(<<"Front", "Back">>, TRUE, 1))
            c2 == AppendDim(c1, want2, ok2, make_dim(<<"Left", "Right">>, FALSE, 1))
        IN  /\ (~want1 => ok1) /\ (~want2 => ok2)
            /\ cur' = [cur EXCEPT !.named = named, !.created_ids = c2,
                                  !.attempts = Append(@, 1),
                                  !.refused = @ \/ ~ok1 \/ ~ok2]
            /\ Mutate(IF want1 \/ want2 THEN {"NewDetailCurve", "NewDimension"} ELSE {})
            /\ pc' = DimAfterStrategy(c2, "s2")
    /\ UNCHANGED <<dialogs, txn, todo, created_dims>>
    /\ DimFrame

\* PRIORITY 2: centre plane to Front, centre plane to Left
DimStrategy2 ==
    /\ tool = "Dim" /\ pc = "s2"
    /\ \E centers \in SUBSET {"CenterFrontBack", "CenterLeftRight"}, ok1 \in BOOLEAN, ok2 \in BOOLEAN :
        LET named == cur.named \cup centers
            tried == cur.created_ids = <<>>
            want1 == tried /\ {"CenterFrontBack", "Front"} \subseteq named
            want2 == tried /\ {"CenterLeftRight", "Left"} \subseteq named
            c1 == AppendDim(cur.created_ids, want1, ok1, make_dim(<<"CenterFrontBack", "Front">>, TRUE, 2))
            c2 == AppendDim(c1, want2, ok2, make_dim(<<"CenterLeftRight", "Left">>, FALSE, 2))
        IN  /\ (~want1 => ok1) /\ (~want2 => ok2)
            /\ cur' = [cur EXCEPT !.named = named, !.created_ids = c2,
                                  !.attempts = IF tried THEN Append(@, 2) ELSE @,
                                  !.refused = @ \/ ~ok1 \/ ~ok2]
            /\ Mutate(IF want1 \/ want2 THEN {"NewDetailCurve", "NewDimension"} ELSE {})
            /\ pc' = DimAfterStrategy(c2, "s3")
    /\ UNCHANGED <<dialogs, txn, todo, created_dims>>
    /\ DimFrame

\* the dimensions of `for p in pairs`, the host answering oks[k] for pair k
RECURSIVE DimPairs(_, _, _, _)
DimPairs(pairs, k, oks, created_ids) ==
    IF k > Len(pairs) THEN created_ids
    ELSE LET fl == pairs[k][1]
             fh == pairs[k][2]
             is_horiz == abs(fl.n[2]) > abs(fl.n[1])
         IN  DimPairs(pairs, k + 1, oks,
                      AppendDim(created_ids, TRUE, oks[k], make_dim(<<fl.id, fh.id>>, is_horiz, 3)))

\* PRIORITY 3: geometry scraping
DimStrategy3 ==
    /\ tool = "Dim" /\ pc = "s3"
    /\ \E g \in GeometryInputs, oks \in [1..2 -> BOOLEAN] :
        LET side_faces == get_side_faces(g)
            pairs == PairFaces(side_faces, 1, {}, <<>>)
            c == DimPairs(pairs, 1, oks, cur.created_ids)
        IN  /\ \A k \in 1..2 : k > Len(pairs) => oks[k]
            /\ cur' = [cur EXCEPT !.geometry = g, !.created_ids = c,
                                  !.attempts = Append(@, 3),
                                  !.refused = @ \/ \E k \in 1..2 : ~oks[k]]
            /\ Mutate(IF pairs # <<>> THEN {"NewDetailCurve", "NewDimension"} ELSE {})
    /\ pc' = "return"
    /\ UNCHANGED <<dialogs, txn, todo, created_dims>>
    /\ DimFrame

\* back in main: `if ids: created_dims.extend(ids)`
DimReturn ==
    /\ tool = "Dim" /\ pc = "return"
    /\ created_dims' = created_dims + Len(cur.created_ids)
    /\ todo' = todo - 1
    /\ pc' = "loop"
    /\ UNCHANGED <<dialogs, docVars, cur>>
    /\ DimFrame

\* leaving the with block commits; tg.Commit(); the result is selected or
\* the failure reported
DimCommit ==
    /\ tool = "Dim" /\ pc = "loop" /\ todo = 0
    /\ TxnCommit
    /\ IF created_dims = 0 THEN Alert("No dimensions could be created.") ELSE UNCHANGED dialogs
    /\ pc' = "done"
    /\ UNCHANGED <<docOps, todo, cur, created_dims>>
    /\ DimFrame

----------------------------------------------------------------------------
\* LinkTools CopyFromLink.pushbutton : main, in its two versions
\*   "CopyPick": Tools.tab, the user picks linked elements
\*   "CopyCat" : ToolsByGimhan.tab, the user chooses categories

LinkTools == {"CopyPick", "CopyCat"}

\* ids of the RevitLinkInstances of the project
LinkIds == {1, 2}

\* ids of elements inside a linked document
LinkedElementIds == {11, 12}

\* a Reference returned by PickObjects(ObjectType.LinkedElement)
PickRefs == [ElementId : LinkIds, LinkedElementId : LinkedElementIds]

LinkFrame == UNCHANGED <<tool, res, gitVars, updVars, view, gridVars, todo, success_count,
                         fail_count, created_dims>>

\* steps 1: collect the link instances, keep the loaded ones
LinkCollect ==
    /\ tool \in LinkTools /\ pc = "start"
    /\ \/ \E loaded \in SUBSET LinkIds \ {{}} :
            sel' = [loaded |-> loaded] /\ pc' = "select" /\ UNCHANGED dialogs
       \/ pc' = "done" /\ Alert("No linked models found in the current project.") /\ UNCHANGED sel
       \/ pc' = "done" /\ Alert("No LOADED links found.") /\ UNCHANGED sel
    /\ UNCHANGED <<docVars, references, cur>>
    /\ LinkFrame

LinkSelect ==
    /\ tool \in LinkTools /\ pc = "select"
    /\ \/ \E l \in sel.loaded :
            sel' = [loaded |-> sel.loaded, selected_link_instance |-> l] /\ pc' = "pick"
       \/ pc' = "done" /\ UNCHANGED sel
    /\ UNCHANGED <<dialogs, docVars, references, cur>>
    /\ LinkFrame

\* step 3 of the pick version
CopyPickObjects ==
    /\ tool = "CopyPick" /\ pc = "pick"
    /\ \/ \E refs \in PickSeqs(PickRefs, MaxItems) :
            /\ references' = refs
            /\ pc' = IF refs = <<>> THEN "done" ELSE "filter"
            /\ UNCHANGED dialogs
       \/ pc' = "done" /\ UNCHANGED <<references, dialogs>>      \* cancelled: script.exit()
       \/ pc' = "done" /\ Alert("Error during selection") /\ UNCHANGED references
    /\ UNCHANGED <<sel, docVars, cur>>
    /\ LinkFrame

\* mutation: the check against the selected link instance is missing
RECURSIVE IdsToCopy_NoCheck(_, _, _)
IdsToCopy_NoCheck(refs, i, selected) ==
    IF i > Len(refs) THEN <<>>
    ELSE <<refs[i].LinkedElementId>> \o IdsToCopy_NoCheck(refs, i + 1, selected)

\* `for ref in references`: picks of the selected link instance are kept
RECURSIVE IdsToCopy(_, _, _)
IdsToCopy(refs, i, selected) ==
    IF i > Len(refs) THEN <<>>
    ELSE IF refs[i].ElementId = selected
         THEN <<refs[i].LinkedElementId>> \o IdsToCopy(refs, i + 1, selected)
         ELSE IdsToCopy(refs, i + 1, selected)

CopyPickFilter ==
    /\ tool = "CopyPick" /\ pc = "filter"
    /\ LET ids_to_copy == IdsToCopy(references, 1, sel.selected_link_instance) IN
        /\ cur' = [ids_to_copy |-> ids_to_copy, copied |-> <<>>]
        /\ IF ids_to_copy = <<>>
           THEN pc' = "done" /\ Alert("No elements selected from the chosen link.")
           ELSE pc' = "txn" /\ UNCHANGED dialogs
    /\ UNCHANGED <<sel, docVars, references>>
    /\ LinkFrame

\* steps 3 to 5 of the category version
CopyCatCollect ==
    /\ tool = "CopyCat" /\ pc = "pick"
    /\ \/ \E ids \in PickSeqs(LinkedElementIds, MaxItems) :
            /\ cur' = [ids_to_copy |-> ids, copied |-> <<>>]
            /\ IF ids = <<>>
               THEN pc' = "done" /\ Alert("No elements found in selected categories.")
               ELSE pc' = "txn" /\ UNCHANGED dialogs
       \/ pc' = "done" /\ UNCHANGED <<cur, dialogs>>             \* no category chosen
    /\ UNCHANGED <<sel, docVars, references>>
    /\ LinkFrame

LinkTxnStart ==
    /\ tool \in LinkTools /\ pc = "txn"
    /\ TxnStart
    /\ pc' = "copy"
    /\ UNCHANGED <<dialogs, sel, docOps, references, cur>>
    /\ LinkFrame

\* ElementTransformUtils.CopyElements, which may raise
LinkCopy ==
    /\ tool \in LinkTools /\ pc = "copy"
    /\ \/ /\ Mutate({"CopyElements"})
          /\ cur' = [cur EXCEPT !.copied = cur.ids_to_copy]
          /\ pc' = "commit"
       \/ /\ pc' = "rollback"
          /\ UNCHANGED <<docOps, cur>>
    /\ UNCHANGED <<dialogs, sel, txn, references>>
    /\ LinkFrame

LinkFinish ==
    /\ tool \in LinkTools /\ pc \in {"commit", "rollback"}
    /\ IF pc = "commit" THEN TxnCommit ELSE TxnRollBack
    /\ pc' = "done"
    /\ UNCHANGED <<dialogs, sel, docOps, references, cur>>
    /\ LinkFrame

----------------------------------------------------------------------------
\* RebarTools BeamRebar.pushbutton : create_rebar

\* the sizes create_rebar makes sure of, in call order
BarSizes == <<"6mm", "8mm", "10mm", "12mm">>

\* names of the RebarBarTypes a project may hold when the button is pressed
BarTypeInputs == SUBSET {"6mm", "12mm", "T16"}

RebarFrame == UNCHANGED <<tool, res, gitVars, updVars, view, sel, references, gridVars,
                          success_count, fail_count, created_dims>>

RebarStart ==
    /\ tool = "Rebar" /\ pc = "start"
    /\ \E bts \in BarTypeInputs : cur' = [bts |-> bts]
    /\ todo' = Len(BarSizes)
    /\ pc' = "ensure"
    /\ UNCHANGED <<dialogs, docVars>>
    /\ RebarFrame

\* ensure_bar_type up to the entry of its with block
RebarEnsure ==
    /\ tool = "Rebar" /\ pc = "ensure" /\ todo > 0
    /\ LET name == BarSizes[Len(BarSizes) - todo + 1] IN
       IF name \in cur.bts \/ cur.bts = {}
       THEN /\ todo' = todo - 1
            /\ pc' = IF todo' = 0 THEN "dialog" ELSE "ensure"
            /\ UNCHANGED txn
       ELSE /\ TxnStart
            /\ pc' = "duplicate"
            /\ UNCHANGED todo
    /\ UNCHANGED <<dialogs, docOps, cur>>
    /\ RebarFrame

\* bts[0].Duplicate(name) and the diameter Set; an exception rolls the
\* transaction back and ends create_rebar in its except clause
RebarDuplicate ==
    /\ tool = "Rebar" /\ pc = "duplicate"
    /\ LET name == BarSizes[Len(BarSizes) - todo + 1] IN
       \/ /\ Mutate({"Duplicate", "Set REBAR_BAR_DIAMETER"})
          /\ cur' = [cur EXCEPT !.bts = @ \cup {name}]
          /\ pc' = "ensured"
          /\ UNCHANGED <<txn, dialogs>>
       \/ /\ TxnRollBack
          /\ Alert("traceback")
          /\ pc' = "done"
          /\ UNCHANGED <<docOps, cur>>
    /\ UNCHANGED todo
    /\ RebarFrame

RebarEnsureCommit ==
    /\ tool = "Rebar" /\ pc = "ensured"
    /\ TxnCommit
    /\ todo' = todo - 1
    /\ pc' = IF todo' = 0 THEN "dialog" ELSE "ensure"
    /\ UNCHANGED <<dialogs, docOps, cur>>
    /\ RebarFrame

\* the type list, the editor window, the beam pick and the validations
RebarDialogAndPick ==
    /\ tool = "Rebar" /\ pc = "dialog"
    /\ IF cur.bts = {}
       THEN pc' = "done" /\ Alert("No Rebar Types") /\ UNCHANGED todo
       ELSE \/ pc' = "done" /\ UNCHANGED <<dialogs, todo>>          \* window closed, pick cancelled
            \/ \E msg \in {"No Beams selected.", "Could not get beam dimensions.",
                           "Selected beams must have identical sizes!",
                           "Selected Rebar Types not found"} :
                   pc' = "done" /\ Alert(msg) /\ UNCHANGED todo
            \/ \E n \in 1..MaxItems : todo' = n /\ pc' = "batch" /\ UNCHANGED dialogs
    /\ UNCHANGED <<docVars, cur>>
    /\ RebarFrame

RebarBatchStart ==
    /\ tool = "Rebar" /\ pc = "batch"
    /\ TxnStart
    /\ pc' = "beams"
    /\ UNCHANGED <<dialogs, docOps, todo, cur>>
    /\ RebarFrame

\* one beam: skipped without dimensions, else stirrups and main bars are
\* created as far as the host accepts them
RebarBeam ==
    /\ tool = "Rebar" /\ pc = "beams" /\ todo > 0
    /\ \/ UNCHANGED docOps
       \/ \E ops \in SUBSET {"SetLayoutAsNumberWithSpacing", "SetUnobscuredInView"} :
            Mutate({"CreateFromCurves"} \cup ops)
    /\ todo' = todo - 1
    /\ UNCHANGED <<pc, dialogs, txn, cur>>
    /\ RebarFrame

\* the closing alert, then the with block commits
RebarBatchEnd ==
    /\ tool = "Rebar" /\ pc = "beams" /\ todo = 0
    /\ \E title \in {"Debug Log", "Complete"} : Alert(title)
    /\ TxnCommit
    /\ pc' = "done"
    /\ UNCHANGED <<docOps, todo, cur>>
    /\ RebarFrame

----------------------------------------------------------------------------
Tools == {"Hook", "Sync", "Upd", "Grid", "Host", "Param", "Dim", "CopyPick", "CopyCat", "Rebar"}

Init ==
    /\ tool \in Tools
    /\ pc = "start"
    /\ IF tool \in {"Hook", "Sync"} THEN dirs \in BoolSeqs(MaxDepth) ELSE dirs = <<>>
    /\ IF tool = "Hook" THEN engine \in {"py3", "py2"} ELSE engine = "py2"
    /\ repo_root = None
    /\ gitLog = <<>>
    /\ output = <<>>
    /\ dialogs = <<>>
    /\ res = "unasked"
    /\ escaped = FALSE
    /\ IF tool = "Upd" THEN installed \in InstalledInputs(RepoExtensions) ELSE installed = <<>>
    /\ installed0 = installed
    /\ repoHas = {} /\ fsLog = <<>>
    /\ txn = "none" /\ docOps = {}
    /\ IF tool = "Grid" THEN view \in {"ViewPlan", "ViewSection", "View3D"}
       ELSE IF tool = "Dim" THEN view \in {"ViewPlan", "ViewSection"}
       ELSE view = "none"
    /\ sel = <<>> /\ references = <<>>
    /\ todo = 0 /\ cur = <<>> /\ success_count = 0 /\ fail_count = 0 /\ created_dims = 0
    /\ IF tool = "Grid" THEN bubble \in [Grids -> [{End0, End1} -> BOOLEAN]] ELSE bubble = <<>>
    /\ bubble0 = bubble /\ pickHist = <<>>

Next ==
    \/ HookFindRoot \/ HookFetch \/ HookStatus \/ HookPrompt \/ HookPull
    \/ UpdConfirm \/ UpdMkdtemp \/ UpdDownload \/ UpdExtract \/ UpdLoop \/ UpdCleanup
    \/ GridCheckView \/ GridPick \/ GridTxnStart \/ GridToggle \/ GridCommit \/ GridRunAgain
    \/ HostSelectSource \/ HostSelectElements \/ HostSelectTarget \/ HostTxnStart
    \/ HostElement \/ HostCommit
    \/ ParamSwitch \/ ParamGetElements \/ ParamSelectNames \/ ParamTxnStart
    \/ ParamElement \/ ParamCommit
    \/ DimCheckView \/ DimSelection \/ DimTxnStart \/ DimBegin \/ DimStrategy1
    \/ DimStrategy2 \/ DimStrategy3 \/ DimReturn \/ DimCommit
    \/ LinkCollect \/ LinkSelect \/ CopyPickObjects \/ CopyPickFilter \/ CopyCatCollect
    \/ LinkTxnStart \/ LinkCopy \/ LinkFinish
    \/ RebarStart \/ RebarEnsure \/ RebarDuplicate \/ RebarEnsureCommit
    \/ RebarDialogAndPick \/ RebarBatchStart \/ RebarBeam \/ RebarBatchEnd
    \/ SyncFindRoot \/ SyncFetch \/ SyncRevList \/ SyncPrompt \/ SyncReset \/ SyncClean

Spec == Init /\ [][Next]_vars

----------------------------------------------------------------------------
\* Commands that rewrite the working tree
ChangesWorkTree(cmd) == cmd \in {"pull", "reset --hard origin/master", "clean -fd"}

Ran(cmd, i) == i \in 1..Len(gitLog) /\ gitLog[i].cmd = cmd

RanOkBefore(cmd, i) == \E j \in 1..(i - 1) : gitLog[j].cmd = cmd /\ gitLog[j].ok

\* C1: in check_for_updates, `git pull` runs only after `git fetch origin`
\* returned successfully, `git status -uno` reported "Your branch is behind"
\* and the user answered yes to the "Updates Available" prompt; no other
\* command that changes the working tree is ever executed by the hook.
C1_PullOnlyAfterFetchBehindYes ==
    tool = "Hook" =>
        \A i \in 1..Len(gitLog) :
            ChangesWorkTree(gitLog[i].cmd) =>
                /\ gitLog[i].cmd = "pull"
                /\ RanOkBefore("fetch", i)
                /\ RanOkBefore("status -uno", i)
                /\ Contains(output, BehindNeedle)
                /\ "Updates Available" \in Range(dialogs)
                /\ res = "yes"

C1_Witness ==
    /\ tool = "Hook" /\ pc = "done"
    /\ \E i \in 1..Len(gitLog) : gitLog[i].cmd = "pull" /\ gitLog[i].ok

\* C9: in run_sync, `git reset --hard origin/master` runs only after
\* `git fetch origin` succeeded, the rev-list count showed at least one commit
\* behind origin/master and the user answered yes; `git clean -fd` runs only
\* after that reset returned successfully.
C9_ResetAndCleanOrder ==
    tool = "Sync" =>
        \A i \in 1..Len(gitLog) :
            /\ gitLog[i].cmd = "reset --hard origin/master" =>
                /\ RanOkBefore("fetch", i)
                /\ RanOkBefore("rev-list", i)
                /\ Len(output) >= 2 /\ int(output[2]) >= 1
                /\ res = "yes"
            /\ gitLog[i].cmd = "clean -fd" =>
                /\ i > 1
                /\ gitLog[i - 1].cmd = "reset --hard origin/master"
                /\ gitLog[i - 1].ok
                /\ res = "yes"
            /\ gitLog[i].cmd = "pull" => FALSE

C9_Witness ==
    /\ tool = "Sync" /\ pc = "done"
    /\ \E i \in 1..Len(gitLog) : gitLog[i].cmd = "clean -fd" /\ gitLog[i].ok
    /\ "Success" \in Range(dialogs)

FsOk(op) == \E i \in 1..Len(fsLog) : fsLog[i].op = op /\ fsLog[i].ok

AllCopiesOk == \A i \in 1..Len(fsLog) : fsLog[i].op = "copytree" => fsLog[i].ok

\* C7: after an update run the user confirmed, in which download, extraction
\* and every copy succeeded, every extension folder contained in the
\* downloaded repository has replaced the installed folder of the same name.
C7_AllExtensionsUpdated ==
    (/\ tool = "Upd" /\ pc = "done" /\ res = "yes"
     /\ FsOk("DownloadFile") /\ FsOk("extractall") /\ AllCopiesOk)
    => \A e \in repoHas : installed[e] = "new"

\* C8: update_extensions downloads nothing and creates, deletes or overwrites
\* nothing unless the user answered yes; when the user declines, the
\* installed extensions and the file system are as before.
C8_NothingWithoutYes ==
    (tool = "Upd" /\ res # "yes") => (fsLog = <<>> /\ installed = installed0)

C8_Witness ==
    tool = "Upd" /\ pc = "done" /\ res = "no" /\ "Update Gimhan Extensions" \in Range(dialogs)

Negated(b) == [e \in DOMAIN b |-> ~b[e]]

\* C6: after a run of the grid-bubble tool in which the user picked a set of
\* grids, both bubbles of every picked grid have the opposite visibility of
\* before the run; a second run on the same grids restores the original.
C6_BubblesToggled ==
    (tool = "Grid" /\ pc = "done") =>
        /\ Len(pickHist) = 1 =>
              \A g \in Grids : bubble[g] = IF g \in pickHist[1] THEN Negated(bubble0[g]) ELSE bubble0[g]
        /\ (Len(pickHist) = 2 /\ pickHist[1] = pickHist[2]) => bubble = bubble0

C6_Witness ==
    /\ tool = "Grid" /\ pc = "done" /\ txn = "committed"
    /\ Len(pickHist) = 2 /\ pickHist[1] = pickHist[2] /\ Cardinality(pickHist[1]) = 2
    /\ \E g \in Grids : bubble0[g][End0] # bubble0[g][End1]

\* C3: the change-level tool keeps the position of every element it counts
\* as a success: the target level's elevation plus the element's offset after
\* the run equals its previous level elevation plus its previous offset.
C3_SuccessKeepsPosition ==
    (tool = "Host" /\ cur # <<>> /\ cur.outcome = "success") =>
        Elevation(sel.target) + OffsetOf(cur.after)
            = Elevation(cur.before.level) + OffsetOf(cur.before)

SkipReasons == {"source not found", "target not found", "read-only", "null"}

\* C10: in the parameter-transfer tool an element counted as failed because
\* its source parameter is missing, its target parameter is missing, its
\* target parameter is read-only or its source value is null keeps its
\* target parameter value unchanged.
C10_SkippedKeepsTarget ==
    (tool = "Param" /\ cur # <<>> /\ cur.outcome \in SkipReasons) =>
        /\ cur.after.p_target = cur.before.p_target
        /\ fail_count >= 1

C10_Witness ==
    /\ tool = "Param" /\ pc = "done" /\ txn = "committed"
    /\ cur # <<>> /\ cur.outcome = "null"
    /\ cur.before.p_target # NoParameter /\ cur.before.p_target.value = "old"
    /\ fail_count = 2

\* the axis along which a reference plane or face bounds the foundation,
\* and the side it lies on (0: through the centre)
RefAxis(r) == IF r \in {"Left", "Right", "CenterLeftRight", "x-", "x+"} THEN "X" ELSE "Y"

RefSide(r) ==
    CASE r \in {"Left", "Front", "x-", "y-"} -> -1
      [] r \in {"Right", "Back", "x+", "y+"} -> 1
      [] OTHER -> 0

MeasuresExtent(d, axis) ==
    /\ RefAxis(d.refs[1]) = axis /\ RefAxis(d.refs[2]) = axis
    /\ {RefSide(d.refs[1]), RefSide(d.refs[2])} = {-1, 1}

\* C4: in a plan view, on a selected rectangular foundation for which the
\* host creates every dimension the tool requests, the tool adds both
\* dimensions: one measuring the extent along X and one the extent along Y.
C4_BothDimensions ==
    (/\ tool = "Dim" /\ pc = "return" /\ view = "ViewPlan"
     /\ cur.bbox /\ ~cur.refused
     /\ (3 \in Range(cur.attempts) => cur.geometry.withRef = SideFaceIds))
    => /\ Len(cur.created_ids) = 2
       /\ \E i, j \in 1..Len(cur.created_ids) :
             MeasuresExtent(cur.created_ids[i], "X") /\ MeasuresExtent(cur.created_ids[j], "Y")

IsPrefix(a, b) == Len(a) <= Len(b) /\ \A i \in 1..Len(a) : a[i] = b[i]

\* C5: create_dimensions_for_foundation tries named references, then centre
\* planes, then geometry scraping; a later strategy is attempted only when
\* every earlier one created no dimension; the dimensions returned for one
\* foundation all come from a single strategy.
C5_StrategyOrder ==
    (tool = "Dim" /\ cur # <<>>) =>
        /\ IsPrefix(cur.attempts, <<1, 2, 3>>)
        /\ \A i \in 1..Len(cur.created_ids), k \in 1..Len(cur.attempts) :
              cur.attempts[k] <= cur.created_ids[i].strategy
        /\ \A i, j \in 1..Len(cur.created_ids) :
              cur.created_ids[i].strategy = cur.created_ids[j].strategy

C5_Witness ==
    /\ tool = "Dim" /\ pc = "done" /\ cur # <<>>
    /\ cur.attempts = <<1, 2, 3>>
    /\ Len(cur.created_ids) = 2 /\ cur.created_ids[1].strategy = 3
    /\ created_dims = 3

RevitTools == {"Dim", "Grid", "Host", "CopyPick", "CopyCat", "Param", "Rebar"}

\* C2: every script changes the Revit document only while a transaction it
\* started is open: every parameter set, element creation, element copy and
\* visibility change lies between the transaction's start and its commit or
\* rollback.
C2_MutationsInsideTransaction ==
    /\ \A o \in docOps : o.txn = "open"
    /\ docOps # {} => tool \in RevitTools /\ txn # "none"

C2_Witness ==
    /\ tool = "Rebar" /\ pc = "done" /\ txn = "committed"
    /\ {"Duplicate", "CreateFromCurves"} \subseteq {o.op : o \in docOps}

\* positions of the picks made in the link instance chosen in the list
PicksInSelected == {i \in 1..Len(references) : references[i].ElementId = sel.selected_link_instance}

\* C11: the pick-based copy-from-link tool copies exactly the linked elements
\* whose pick belongs to the link instance chosen in the list: picks made in
\* another link instance are skipped and never passed to the copy, and when
\* no pick belongs to the chosen link no transaction is started.
C11_CopiesOnlySelectedLink ==
    (tool = "CopyPick" /\ cur # <<>>) =>
        /\ Len(cur.ids_to_copy) = Cardinality(PicksInSelected)
        /\ Range(cur.ids_to_copy) = {references[i].LinkedElementId : i \in PicksInSelected}
        /\ cur.copied \in {<<>>, cur.ids_to_copy}
        /\ (\E o \in docOps : o.op = "CopyElements") => cur.copied = cur.ids_to_copy
        /\ PicksInSelected = {} => (txn = "none" /\ docOps = {})

C11_Witness ==
    /\ tool = "CopyPick" /\ pc = "done" /\ txn = "committed"
    /\ Len(references) = 2 /\ Len(cur.copied) = 1
    /\ \E i \in 1..2 : references[i].ElementId # sel.selected_link_instance

\* the hook's failure cases: no repository root, a fetch that did not
\* succeed, or a status that did not succeed
HookFailure ==
    /\ tool = "Hook" /\ pc = "done"
    /\ \/ repo_root = None
       \/ ~\E i \in 1..Len(gitLog) : gitLog[i].cmd = "fetch" /\ gitLog[i].ok
       \/ \E i \in 1..Len(gitLog) : gitLog[i].cmd = "status -uno" /\ ~gitLog[i].ok

\* C12: the startup hook never disturbs Revit startup on failure: when no
\* repository root is found, when `git fetch` times out or fails, or when
\* `git status` fails, check_for_updates returns without a dialog, without
\* running `git pull` and without an exception reaching the host.
C12_SilentOnFailure ==
    HookFailure =>
        /\ dialogs = <<>>
        /\ \A i \in 1..Len(gitLog) : gitLog[i].cmd # "pull"
        /\ ~escaped

====
